---- MODULE Spec2Model ----
(***************************************************************************)
(* hexnet_service: the codec between IPv4 routes (target CIDR + gateway)   *)
(* and the packed hex form of DHCP classless static routes (options 121    *)
(* and 249), and the form handler that drives it (src/main.go).            *)
(*                                                                         *)
(* Text is a sequence of one-character strings.  Bytes are 0..255.  A Go   *)
(* slice of the decoded buffer is a view [off, len] into the backing       *)
(* array, so that append's writes through a view are visible.              *)
(***************************************************************************)
EXTENDS Integers, Sequences, FiniteSets, TLC

VARIABLES
  call,   \* what the current call was made with
  dec,    \* the parseHexStream call: its locals and position
  enc,    \* the buildHexString call: its arguments and result
  page    \* the pageHandler call: its locals and position

vars == <<call, dec, enc, page>>

\* ------------------------------------------------------------------ bounds
\* Records per generated stream.
MaxRecords == 2
\* Bytes removed from the end of a generated stream.
MaxCut == 4
\* Lines per posted form.
MaxLines == 2

\* ---------------------------------------------------------- text and bytes
Digits == <<"0", "1", "2", "3", "4", "5", "6", "7", "8", "9">>

HexDigits == Digits \o <<"a", "b", "c", "d", "e", "f">>

UpperHexDigits == Digits \o <<"A", "B", "C", "D", "E", "F">>

\* Position of c in table, counted from 0; -1 when absent.
IndexIn(c, table) ==
  IF \E k \in 1..Len(table) : table[k] = c
  THEN (CHOOSE k \in 1..Len(table) : table[k] = c) - 1
  ELSE -1

RECURSIVE Flatten(_)
Flatten(ss) == IF ss = <<>> THEN <<>> ELSE Head(ss) \o Flatten(Tail(ss))

IsSpace(c) == c \in {" ", "\t", "\n", "\r"}

RECURSIVE TrimLeft(_)
TrimLeft(s) ==
  IF s # <<>> /\ IsSpace(Head(s)) THEN TrimLeft(Tail(s)) ELSE s

RECURSIVE TrimRight(_)
TrimRight(s) ==
  IF s # <<>> /\ IsSpace(s[Len(s)])
  THEN TrimRight(SubSeq(s, 1, Len(s) - 1))
  ELSE s

\* strings.TrimSpace
TrimSpace(s) == TrimRight(TrimLeft(s))

\* strings.HasPrefix
HasPrefix(s, p) == Len(s) >= Len(p) /\ SubSeq(s, 1, Len(p)) = p

\* strings.Split(s, sep) for a one-character sep: always at least one piece.
RECURSIVE Split(_, _)
Split(s, sep) ==
  IF \E k \in 1..Len(s) : s[k] = sep
  THEN LET k == CHOOSE k \in 1..Len(s) :
                  s[k] = sep /\ \A j \in 1..(k - 1) : s[j] # sep
       IN <<SubSeq(s, 1, k - 1)>> \o Split(SubSeq(s, k + 1, Len(s)), sep)
  ELSE <<s>>

\* strings.Fields: the maximal runs of non-space characters.
RECURSIVE Fields(_)
Fields(s) ==
  LET t == TrimLeft(s) IN
  IF t = <<>> THEN <<>>
  ELSE LET n == IF \E k \in 1..Len(t) : IsSpace(t[k])
                THEN (CHOOSE k \in 1..Len(t) :
                        IsSpace(t[k]) /\ \A j \in 1..(k - 1) : ~IsSpace(t[j])) - 1
                ELSE Len(t)
       IN <<SubSeq(t, 1, n)>> \o Fields(SubSeq(t, n + 1, Len(t)))

\* encoding/hex fromHexChar: the digit's value, -1 for a non-hex character.
fromHexChar(c) ==
  IF IndexIn(c, HexDigits) >= 0 THEN IndexIn(c, HexDigits)
  ELSE IndexIn(c, UpperHexDigits)

\* hex.DecodeString: fails on an odd length or a non-hex character.  (The
\* argument is bound to s, so that it is evaluated once.)
DecodeString(str) ==
  CHOOSE r \in
    { IF Len(s) % 2 = 0 /\ \A k \in 1..Len(s) : fromHexChar(s[k]) >= 0
      THEN [ok |-> TRUE,
            bytes |-> [k \in 1..(Len(s) \div 2) |->
                         16 * fromHexChar(s[2 * k - 1]) + fromHexChar(s[2 * k])]]
      ELSE [ok |-> FALSE, bytes |-> <<>>] : s \in {str} } : TRUE

\* hex.EncodeToString, fmt "%x" of a byte slice: two lowercase digits a byte.
\* (The argument is bound to b, so that it is evaluated once.)
EncodeToString(bytes) ==
  CHOOSE r \in
    { [k \in 1..(2 * Len(b)) |->
         IF k % 2 = 1
         THEN HexDigits[(b[(k + 1) \div 2] \div 16) + 1]
         ELSE HexDigits[(b[k \div 2] % 16) + 1]] : b \in {bytes} } : TRUE

\* fmt "%d" of a non-negative integer.
RECURSIVE Itoa(_)
Itoa(n) ==
  IF n < 10 THEN <<Digits[n + 1]>>
  ELSE Itoa(n \div 10) \o <<Digits[(n % 10) + 1]>>

\* net.IPv4(a, b, c, d).String().  (The argument is bound to ip, so that it
\* is evaluated once.)
IPv4String(addr) ==
  CHOOSE r \in
    { Itoa(ip[1]) \o <<".">> \o Itoa(ip[2]) \o <<".">> \o Itoa(ip[3])
        \o <<".">> \o Itoa(ip[4]) : ip \in {addr} } : TRUE

\* Value of a run of decimal digits.
RECURSIVE DecValue(_)
DecValue(s) ==
  IF s = <<>> THEN 0
  ELSE 10 * DecValue(SubSeq(s, 1, Len(s) - 1)) + IndexIn(s[Len(s)], Digits)

AllDigits(s) == \A k \in 1..Len(s) : IndexIn(s[k], Digits) >= 0

\* Dotted-quad parse as net.ParseIP / net.ParseCIDR do it for IPv4 text:
\* four fields of 1..3 digits, no leading zero, each at most 255.
ParseIPv4(s) ==
  LET f == Split(s, ".")
      fieldOk(x) == /\ Len(x) >= 1 /\ Len(x) <= 3
                    /\ AllDigits(x)
                    /\ (Len(x) > 1 => x[1] # "0")
                    /\ DecValue(x) <= 255
  IN IF Len(f) = 4 /\ \A k \in 1..4 : fieldOk(f[k])
     THEN [ok |-> TRUE, ip |-> [k \in 1..4 |-> DecValue(f[k])]]
     ELSE [ok |-> FALSE, ip |-> <<>>]

\* net.ParseCIDR for IPv4 text: the address as written (not masked) and the
\* number of leading ones of the mask.
ParseCIDR(s) ==
  LET parts == Split(s, "/")
      addr == parts[1]
      mask == SubSeq(s, Len(addr) + 2, Len(s))
      a == ParseIPv4(addr)
  IN IF /\ Len(parts) >= 2
        /\ a.ok
        /\ Len(mask) >= 1 /\ AllDigits(mask)
        /\ DecValue(mask) <= 32
     THEN [ok |-> TRUE, ip |-> a.ip, ones |-> DecValue(mask)]
     ELSE [ok |-> FALSE, ip |-> <<>>, ones |-> 0]

\* fmt "%x" of a non-negative integer, without padding.
RECURSIVE HexOf(_)
HexOf(n) ==
  IF n < 16 THEN <<HexDigits[n + 1]>>
  ELSE HexOf(n \div 16) \o <<HexDigits[(n % 16) + 1]>>

\* fmt "%02x": HexOf padded with a zero to two digits.
Sprintf02x(n) == IF n < 16 THEN <<"0">> \o HexOf(n) ELSE HexOf(n)

\* The pair struct; an unset field is the empty text.
Pair(t, r, h, e) == [Target |-> t, Route |-> r, Hex |-> h, Error |-> e]

\* A nil error; an error is its message, one piece of text per part.
NoError == <<>>

\* --------------------------------------------------------------- encoder
\* Mutant of cidrPrefixBytes: rounds down instead of up.
cidrPrefixBytesFloor(prefix) == IF prefix <= 0 THEN 0 ELSE prefix \div 8

\* cidrPrefixBytes: int(math.Ceil(float64(prefix) / 8.0)), exact for ints.
cidrPrefixBytes(prefix) ==
  IF prefix <= 0 THEN 0
  ELSE IF prefix % 8 = 0 THEN prefix \div 8 ELSE (prefix \div 8) + 1

\* ipToHex on an IPv4 address: the hex of its first `bytes` bytes.
ipToHex(ip, bytes) ==
  IF Len(ip) # 4
  THEN [hex |-> <<>>, err |-> <<"only IPv4 supported">>]
  ELSE IF bytes < 0 \/ bytes > 4
  THEN [hex |-> <<>>, err |-> <<"invalid bytes">>]
  ELSE [hex |-> EncodeToString(SubSeq(ip, 1, bytes)), err |-> NoError]

\* buildHexString: "0x" + prefix length + network bytes + gateway bytes.
buildHexString(targetCIDR, routeIP) ==
  LET c == ParseCIDR(targetCIDR)
      bytesNeeded == cidrPrefixBytes(c.ones)
      t == ipToHex(c.ip, bytesNeeded)
      r == ParseIPv4(routeIP)
      rh == ipToHex(r.ip, 4)
  IN IF ~c.ok THEN [hex |-> <<>>, err |-> <<"invalid target CIDR">>]
     ELSE IF t.err # NoError
     THEN [hex |-> <<>>, err |-> <<"target ip error: ">> \o t.err]
     ELSE IF ~r.ok
     THEN [hex |-> <<>>, err |-> <<"invalid route IP: ">> \o routeIP]
     ELSE IF rh.err # NoError
     THEN [hex |-> <<>>, err |-> <<"route ip error: ">> \o rh.err]
     ELSE [hex |-> <<"0", "x">> \o Sprintf02x(c.ones) \o t.hex \o rh.hex,
           err |-> NoError]

\* --------------------------------------------------------- stream decoder
\* A slice of the decoded buffer: data[off : off+len].
Slice(off, len) == [off |-> off, len |-> len]

NilSlice == Slice(0, 0)

\* The bytes a slice views in the backing array arr.
SliceBytes(arr, s) == [k \in 1..s.len |-> arr[s.off + k]]

\* data[lo:hi] is legal when 0 <= lo <= hi <= cap(data); the buffer's
\* capacity is at least its length, and no slice here needs more.
SliceOk(arr, lo, hi) == 0 <= lo /\ lo <= hi /\ hi <= Len(arr)

\* append(dst, src...) for two views of arr: when dst's capacity (to the end
\* of arr) holds the result, the bytes are written into arr after dst;
\* otherwise a new array is allocated and arr is left alone.
AppendView(arr, dst, src) ==
  LET vals == SliceBytes(arr, src)
      at == dst.off + dst.len
  IN IF at + src.len <= Len(arr)
     THEN [arr |-> [k \in 1..Len(arr) |->
                      IF k > at /\ k <= at + src.len THEN vals[k - at]
                      ELSE arr[k]],
           bytes |-> SliceBytes(arr, dst) \o vals]
     ELSE [arr |-> arr, bytes |-> SliceBytes(arr, dst) \o vals]

\* The locals of one parseHexStream call; pc is the position in its code.
Frame(h) ==
  [pc |-> "entry", hexStr |-> h, data |-> <<>>, i |-> 0, prefixLen |-> 0,
   bytesNeeded |-> 0, netPart |-> NilSlice, routePart |-> NilSlice,
   results |-> <<>>, err |-> NoError]

IdleFrame == [Frame(<<>>) EXCEPT !.pc = "idle"]

\* Lines 73-83: trim, strip the 0x/0X prefix, hex-decode.
Enter(d) ==
  LET t == TrimSpace(d.hexStr)
      s == IF HasPrefix(t, <<"0", "x">>) \/ HasPrefix(t, <<"0", "X">>)
           THEN SubSeq(t, 3, Len(t))
           ELSE t
      r == DecodeString(s)
  IN IF ~r.ok
     THEN [d EXCEPT !.pc = "ret", !.hexStr = s, !.results = <<>>,
                    !.err = <<"invalid hex string">>]
     ELSE [d EXCEPT !.pc = "loop", !.hexStr = s, !.data = r.bytes,
                    !.results = <<>>, !.i = 0]

\* Mutant of LoopTest: stops after the first record.
LoopTestOnce(d) ==
  IF d.i < Len(d.data) /\ d.results = <<>>
  THEN [d EXCEPT !.pc = "len"]
  ELSE [d EXCEPT !.pc = "ret", !.err = NoError]

\* Lines 84 and 111: the loop condition, and the return after the loop.
LoopTest(d) ==
  IF d.i < Len(d.data)
  THEN [d EXCEPT !.pc = "len"]
  ELSE [d EXCEPT !.pc = "ret", !.err = NoError]

\* Lines 85-90: the length byte.  An index outside the buffer panics.
ReadLen(d) ==
  IF d.i + 1 > Len(d.data)
  THEN [d EXCEPT !.pc = "ret", !.err = <<"unexpected end of data">>]
  ELSE IF ~(0 <= d.i /\ d.i < Len(d.data))
  THEN [d EXCEPT !.pc = "panic"]
  ELSE [d EXCEPT !.pc = "check",
                 !.prefixLen = d.data[d.i + 1],
                 !.i = d.i + 1,
                 !.bytesNeeded = cidrPrefixBytes(d.data[d.i + 1])]

\* Mutant of CheckRecord: forgets the four gateway bytes.
CheckRecordNoGateway(d) ==
  IF d.i + d.bytesNeeded > Len(d.data)
  THEN [d EXCEPT !.pc = "ret", !.err = <<"not enough data for record">>]
  ELSE [d EXCEPT !.pc = "slice"]

\* Mutant of CheckRecord: drops the records decoded so far on failure.
CheckRecordDropping(d) ==
  IF d.i + d.bytesNeeded + 4 > Len(d.data)
  THEN [d EXCEPT !.pc = "ret", !.results = <<>>,
                 !.err = <<"not enough data for record">>]
  ELSE [d EXCEPT !.pc = "slice"]

\* Mutant of CheckRecord: off by one, refuses a record that ends the buffer.
CheckRecordStrict(d) ==
  IF d.i + d.bytesNeeded + 4 >= Len(d.data)
  THEN [d EXCEPT !.pc = "ret", !.err = <<"not enough data for record">>]
  ELSE [d EXCEPT !.pc = "slice"]

\* Lines 91-93: the record must fit in what is left of the buffer.
CheckRecord(d) ==
  IF d.i + d.bytesNeeded + 4 > Len(d.data)
  THEN [d EXCEPT !.pc = "ret", !.err = <<"not enough data for record">>]
  ELSE [d EXCEPT !.pc = "slice"]

\* Lines 95-98: the two views.  A slice outside the buffer panics.
TakeSlices(d) ==
  IF ~SliceOk(d.data, d.i, d.i + d.bytesNeeded)
     \/ ~SliceOk(d.data, d.i + d.bytesNeeded, d.i + d.bytesNeeded + 4)
  THEN [d EXCEPT !.pc = "panic"]
  ELSE [d EXCEPT !.pc = "emit",
                 !.netPart = Slice(d.i, d.bytesNeeded),
                 !.routePart = Slice(d.i + d.bytesNeeded, 4),
                 !.i = d.i + d.bytesNeeded + 4]

\* Mutant of NetIP: netPart right-aligned in the four bytes.
NetIPRightAligned(d) ==
  LET n == SliceBytes(d.data, d.netPart)
  IN [k \in 1..4 |-> IF k > 4 - Len(n) THEN n[k - (4 - Len(n))] ELSE 0]

\* Lines 100-102: netPart left-aligned in four zero bytes (copy stops at the
\* shorter of the two).
NetIP(d) ==
  LET n == SliceBytes(d.data, d.netPart)
  IN [k \in 1..4 |-> IF k <= Len(n) THEN n[k] ELSE 0]

\* Mutant of FullHex: re-encodes the zero-padded address.
FullHexPadded(d) ==
  [data |-> d.data,
   bytes |-> <<d.prefixLen % 256>> \o NetIP(d) \o SliceBytes(d.data, d.routePart)]

\* Mutant of FullHex: the operands of the inner append swapped.
FullHexSwapped(d) ==
  LET inner == AppendView(d.data, d.routePart, d.netPart)
  IN [data |-> inner.arr, bytes |-> <<d.prefixLen % 256>> \o inner.bytes]

\* Line 107: append([]byte{byte(prefixLen)}, append(netPart, routePart...)...).
\* The inner append works on views of data; the outer one allocates.
FullHex(d) ==
  LET inner == AppendView(d.data, d.netPart, d.routePart)
  IN [data |-> inner.arr, bytes |-> <<d.prefixLen % 256>> \o inner.bytes]

\* Lines 100-109 given the re-encoded bytes: format the record and append
\* it to results.  Target and route are formatted before line 107 runs.
EmitWith(d, full) ==
  IF d.routePart.len < 4
  THEN [d EXCEPT !.pc = "panic"]
  ELSE LET target == IPv4String(NetIP(d)) \o <<"/">> \o Itoa(d.prefixLen)
           route == IPv4String(SliceBytes(d.data, d.routePart))
       IN [d EXCEPT !.pc = "loop", !.data = full.data,
                    !.results = Append(d.results,
                       Pair(target, route,
                            <<"0", "x">> \o EncodeToString(full.bytes),
                            NoError))]

\* Lines 100-109.
Emit(d) == EmitWith(d, FullHex(d))

\* One step of the call at its position.
Step(d) ==
  CASE d.pc = "entry" -> Enter(d)
    [] d.pc = "loop" -> LoopTest(d)
    [] d.pc = "len" -> ReadLen(d)
    [] d.pc = "check" -> CheckRecord(d)
    [] d.pc = "slice" -> TakeSlices(d)
    [] d.pc = "emit" -> Emit(d)
    [] OTHER -> d

RECURSIVE Run(_)
Run(d) == IF d.pc \in {"ret", "panic", "idle"} THEN d ELSE Run(Step(d))

\* parseHexStream as a function: what the call returns.
parseHexStream(hexStr) ==
  LET d == Run(Frame(hexStr)) IN [results |-> d.results, err |-> d.err]

\* ---------------------------------------------------------- form handler
\* The locals of one pageHandler call.
PageFrame(method, data) ==
  [pc |-> "dispatch", method |-> method, data |-> data, lines |-> <<>>,
   idx |-> 1, results |-> <<>>, status |-> 0, rendered |-> <<>>]

IdlePage == [PageFrame("", <<>>) EXCEPT !.pc = "idle"]

\* Line 164: the line the loop is at, trimmed.
CurrentLine(pg) == TrimSpace(pg.lines[pg.idx])

\* Mutant of StreamRows: keeps the records decoded before the failure.
StreamRowsKeeping(h) ==
  LET r == parseHexStream(h)
  IN IF r.err # NoError
     THEN r.results \o <<Pair(<<>>, <<>>, h, r.err)>>
     ELSE r.results

\* Lines 170-176: the rows of a one-token line.
StreamRows(h) ==
  LET r == parseHexStream(h)
  IN IF r.err # NoError
     THEN <<Pair(<<>>, <<>>, h, r.err)>>
     ELSE r.results

\* Lines 178-186: the row of a two-token line.
PairRow(t, rIP) ==
  LET r == buildHexString(t, rIP)
  IN IF r.err # NoError
     THEN Pair(t, rIP, <<>>, r.err)
     ELSE Pair(t, rIP, r.hex, NoError)

\* ------------------------------------------------------------- the inputs
\* Number of network bytes a prefix length stands for on the wire.
NetLen(p) == (p + 7) \div 8

\* Wire chunks the generated streams are made of: records of prefix length
\* 0, 9, 24, 25, 32 and the out-of-range 33; the start of a record that
\* announces more bytes than any generated stream holds; and a lone zero
\* byte, which shifts the record boundaries of what follows it.
SampleChunks ==
  { <<0, 10, 0, 0, 1>>,
    <<9, 10, 128, 172, 16, 0, 254>>,
    <<24, 192, 168, 0, 192, 168, 0, 1>>,
    <<25, 172, 16, 5, 128, 172, 16, 5, 129>>,
    <<32, 8, 8, 4, 4, 255, 0, 9, 33>>,
    <<33, 1, 2, 3, 4, 5, 6, 7, 8, 9>>,
    <<200, 1, 2, 3, 4, 5>>,
    <<0>> }

RECURSIVE SeqsUpTo(_, _)
SeqsUpTo(S, n) ==
  IF n = 0 THEN {<<>>}
  ELSE LET shorter == SeqsUpTo(S, n - 1)
       IN shorter \cup {Append(q, x) : q \in {t \in shorter : Len(t) = n - 1}, x \in S}

WellFormedForms == {"0x", "0X", "bare", "spaced"}

MalformedForms == {"odd", "bad"}

ToUpper(s) ==
  [k \in 1..Len(s) |->
     IF IndexIn(s[k], HexDigits) >= 0
     THEN UpperHexDigits[IndexIn(s[k], HexDigits) + 1]
     ELSE s[k]]

\* The bytes of a generated stream: the chunks, less `cut` bytes at the end.
StreamBytes(chunks, cut) ==
  LET all == Flatten(chunks)
  IN SubSeq(all, 1, IF cut >= Len(all) THEN 0 ELSE Len(all) - cut)

\* The blob handed to the decoder for a generated stream.
Blob(chunks, cut, form) ==
  LET h == EncodeToString(StreamBytes(chunks, cut))
  IN CASE form = "0x" -> <<"0", "x">> \o h
       [] form = "0X" -> <<"0", "X">> \o ToUpper(h)
       [] form = "bare" -> h
       [] form = "spaced" -> <<" ", "0", "x">> \o h \o <<"\n">>
       [] form = "odd" -> <<"0", "x">> \o h \o <<"7">>
       [] form = "bad" -> <<"0", "x", "z", "z">> \o h

SampleNets == { <<192, 168, 5, 77>>, <<10, 0, 0, 0>>, <<255, 255, 255, 255>> }

SampleGateways == { <<192, 168, 0, 1>>, <<10, 200, 30, 4>> }

FormatCIDR(net, p) == IPv4String(net) \o <<"/">> \o Itoa(p)

\* Texts that are no IPv4 CIDR and no IPv4 address.
BadCIDRs ==
  { <<"not-a-cidr">>,
    <<"1", "0", ".", "0", ".", "0", ".", "0">>,
    <<"1", "0", ".", "0", ".", "0", ".", "0", "/", "3", "3">>,
    <<"0", "1", ".", "0", ".", "0", ".", "0", "/", "8">>,
    <<"2", "5", "6", ".", "0", ".", "0", ".", "0", "/", "8">> }

BadGateways == { <<"gw">>, <<"1", "0", ".", "0", ".", "0">> }

\* Lines of a posted form, as their tokens; `pad` puts spaces around them.
SampleLines ==
  { [tokens |-> <<Blob(<<<<24, 192, 168, 0, 192, 168, 0, 1>>>>, 0, "0x")>>, pad |-> FALSE],
    [tokens |-> <<Blob(<<<<0, 10, 0, 0, 1>>, <<9, 10, 128, 172, 16, 0, 254>>>>, 0, "0X")>>, pad |-> TRUE],
    [tokens |-> <<Blob(<<<<0, 10, 0, 0, 1>>, <<24, 192, 168, 0, 192, 168, 0, 1>>>>, 2, "0x")>>, pad |-> FALSE],
    [tokens |-> <<Blob(<<>>, 0, "bad")>>, pad |-> FALSE],
    [tokens |-> <<FormatCIDR(<<10, 0, 0, 0>>, 8), IPv4String(<<10, 0, 0, 1>>)>>, pad |-> FALSE],
    [tokens |-> <<<<"bad">>, IPv4String(<<10, 0, 0, 1>>)>>, pad |-> TRUE],
    [tokens |-> <<<<"a">>, <<"b">>, <<"c">>>>, pad |-> FALSE],
    [tokens |-> <<>>, pad |-> FALSE],
    [tokens |-> <<>>, pad |-> TRUE] }

RECURSIVE Join(_, _)
Join(ss, sep) ==
  IF ss = <<>> THEN <<>>
  ELSE IF Len(ss) = 1 THEN ss[1]
  ELSE ss[1] \o sep \o Join(Tail(ss), sep)

LineText(l) ==
  IF l.pad THEN <<" ">> \o Join(l.tokens, <<" ", " ">>) \o <<" ", "\r">>
  ELSE Join(l.tokens, <<" ">>)

FormData(ls) == Join([k \in 1..Len(ls) |-> LineText(ls[k])], <<"\n">>)

\* What the current call was made with.
NoCall ==
  [kind |-> "none", chunks |-> <<>>, cut |-> 0, form |-> "",
   net |-> <<>>, p |-> 0, gw |-> <<>>, lines |-> <<>>]

IdleEnc ==
  [pc |-> "idle", targetCIDR |-> <<>>, routeIP |-> <<>>, hex |-> <<>>,
   err |-> NoError]

\* ------------------------------------------------------------ the machine
Init ==
  /\ call = NoCall
  /\ dec = IdleFrame
  /\ enc = IdleEnc
  /\ page = IdlePage

\* DecodeStream is called with a blob.
CallDecode ==
  /\ call.kind = "none"
  /\ \E chunks \in SeqsUpTo(SampleChunks, MaxRecords), cut \in 0..MaxCut,
        form \in WellFormedForms \cup MalformedForms :
       /\ cut <= Len(Flatten(chunks))
       /\ form \in MalformedForms => cut = 0
       /\ call' = [NoCall EXCEPT !.kind = "stream", !.chunks = chunks,
                                 !.cut = cut, !.form = form]
       /\ dec' = Frame(Blob(chunks, cut, form))
  /\ UNCHANGED <<enc, page>>

DecEnter ==
  /\ dec.pc = "entry"
  /\ dec' = Enter(dec)
  /\ UNCHANGED <<call, enc, page>>

DecLoopTest ==
  /\ dec.pc = "loop"
  /\ dec' = LoopTest(dec)
  /\ UNCHANGED <<call, enc, page>>

DecReadLen ==
  /\ dec.pc = "len"
  /\ dec' = ReadLen(dec)
  /\ UNCHANGED <<call, enc, page>>

DecCheckRecord ==
  /\ dec.pc = "check"
  /\ dec' = CheckRecord(dec)
  /\ UNCHANGED <<call, enc, page>>

DecTakeSlices ==
  /\ dec.pc = "slice"
  /\ dec' = TakeSlices(dec)
  /\ UNCHANGED <<call, enc, page>>

DecEmit ==
  /\ dec.pc = "emit"
  /\ dec' = Emit(dec)
  /\ UNCHANGED <<call, enc, page>>

DecodeSteps ==
  \/ DecEnter
  \/ DecLoopTest
  \/ DecReadLen
  \/ DecCheckRecord
  \/ DecTakeSlices
  \/ DecEmit

\* Encode is called with the text of a route, or with text that is none.
CallEncode ==
  /\ call.kind = "none"
  /\ \/ \E net \in SampleNets, p \in 0..32, gw \in SampleGateways :
          /\ call' = [NoCall EXCEPT !.kind = "route", !.net = net, !.p = p,
                                    !.gw = gw]
          /\ enc' = [IdleEnc EXCEPT !.pc = "called",
                                    !.targetCIDR = FormatCIDR(net, p),
                                    !.routeIP = IPv4String(gw)]
     \/ \E t \in BadCIDRs \cup {FormatCIDR(<<10, 0, 0, 0>>, 8)},
           g \in BadGateways \cup {IPv4String(<<10, 0, 0, 1>>)} :
          /\ t \in BadCIDRs \/ g \in BadGateways
          /\ call' = [NoCall EXCEPT !.kind = "text"]
          /\ enc' = [IdleEnc EXCEPT !.pc = "called", !.targetCIDR = t,
                                    !.routeIP = g]
  /\ UNCHANGED <<dec, page>>

BuildHex ==
  /\ enc.pc = "called"
  /\ LET r == buildHexString(enc.targetCIDR, enc.routeIP)
     IN enc' = [enc EXCEPT !.pc = "ret", !.hex = r.hex, !.err = r.err]
  /\ UNCHANGED <<call, dec, page>>

\* DecodeStream is called with what Encode returned.
DecodeEncoded ==
  /\ enc.pc = "ret"
  /\ enc.err = NoError
  /\ dec.pc = "idle"
  /\ dec' = Frame(enc.hex)
  /\ UNCHANGED <<call, enc, page>>

\* A request arrives: line 154.
Request ==
  /\ call.kind = "none"
  /\ \E method \in {"GET", "POST", "PUT"},
        ls \in SeqsUpTo(SampleLines, MaxLines) :
       /\ method # "POST" => ls = <<>>
       /\ call' = [NoCall EXCEPT !.kind = "request", !.lines = ls]
       /\ page' = PageFrame(method, FormData(ls))
  /\ UNCHANGED <<dec, enc>>

\* Lines 155-158.
HandleGet ==
  /\ page.pc = "dispatch"
  /\ page.method = "GET"
  /\ page' = [page EXCEPT !.pc = "done", !.status = 200, !.rendered = <<>>]
  /\ UNCHANGED <<call, dec, enc>>

\* Line 194.
HandleOther ==
  /\ page.pc = "dispatch"
  /\ page.method \notin {"GET", "POST"}
  /\ page' = [page EXCEPT !.pc = "done", !.status = 405]
  /\ UNCHANGED <<call, dec, enc>>

\* Lines 159-162.
PostSplit ==
  /\ page.pc = "dispatch"
  /\ page.method = "POST"
  /\ page' = [page EXCEPT !.pc = "line",
                          !.lines = Split(TrimSpace(page.data), "\n"),
                          !.idx = 1, !.results = <<>>]
  /\ UNCHANGED <<call, dec, enc>>

\* Lines 164-167.
LineEmpty ==
  /\ page.pc = "line"
  /\ page.idx <= Len(page.lines)
  /\ CurrentLine(page) = <<>>
  /\ page' = [page EXCEPT !.idx = page.idx + 1]
  /\ UNCHANGED <<call, dec, enc>>

\* Lines 168-176.
LineStream ==
  /\ page.pc = "line"
  /\ page.idx <= Len(page.lines)
  /\ CurrentLine(page) # <<>>
  /\ LET parts == Fields(CurrentLine(page))
     IN /\ Len(parts) = 1
        /\ page' = [page EXCEPT !.idx = page.idx + 1,
                                !.results = page.results \o StreamRows(parts[1])]
  /\ UNCHANGED <<call, dec, enc>>

\* Lines 177-186.
LinePair ==
  /\ page.pc = "line"
  /\ page.idx <= Len(page.lines)
  /\ CurrentLine(page) # <<>>
  /\ LET parts == Fields(CurrentLine(page))
     IN /\ Len(parts) = 2
        /\ page' = [page EXCEPT !.idx = page.idx + 1,
                                !.results = Append(page.results,
                                                   PairRow(parts[1], parts[2]))]
  /\ UNCHANGED <<call, dec, enc>>

\* Lines 187-189.
LineInvalid ==
  /\ page.pc = "line"
  /\ page.idx <= Len(page.lines)
  /\ CurrentLine(page) # <<>>
  /\ Len(Fields(CurrentLine(page))) \notin {1, 2}
  /\ page' = [page EXCEPT !.idx = page.idx + 1,
                          !.results = Append(page.results,
                             Pair(<<>>, <<>>, <<>>,
                                  <<"line format invalid: ">> \o CurrentLine(page)))]
  /\ UNCHANGED <<call, dec, enc>>

\* Lines 191-192.
Render ==
  /\ page.pc = "line"
  /\ page.idx > Len(page.lines)
  /\ page' = [page EXCEPT !.pc = "done", !.status = 200,
                          !.rendered = page.results]
  /\ UNCHANGED <<call, dec, enc>>

HandlerSteps ==
  \/ HandleGet
  \/ HandleOther
  \/ PostSplit
  \/ LineEmpty
  \/ LineStream
  \/ LinePair
  \/ LineInvalid
  \/ Render

NextDecode == CallDecode \/ DecodeSteps

NextRoundTrip == CallEncode \/ BuildHex \/ DecodeEncoded \/ DecodeSteps

NextPage == Request \/ HandlerSteps

Next == NextDecode \/ NextRoundTrip \/ NextPage

\* The whole service.
Spec == Init /\ [][Next]_vars

\* DecodeStream called on a blob.
SpecDecode == Init /\ [][NextDecode]_vars

\* A call that has started runs to its return.
SpecDecodeFair == SpecDecode /\ WF_vars(DecodeSteps)

\* Encode, then DecodeStream on its result.
SpecRoundTrip == Init /\ [][NextRoundTrip]_vars

\* The form handler.
SpecPage == Init /\ [][NextPage]_vars

\* ------------------------------------------------------------ properties
\* What the wire format says of a byte buffer, stated without the decoder.

\* The bytes DecodeStream was given, for a call made with a well-formed blob.
InputBytes == StreamBytes(call.chunks, call.cut)

WellFormedCall == call.kind = "stream" /\ call.form \in WellFormedForms

\* A complete record: length byte, its network bytes, four gateway bytes.
IsRecord(c) == Len(c) >= 1 /\ Len(c) = 1 + NetLen(c[1]) + 4

IsValidRecord(c) == IsRecord(c) /\ c[1] <= 32

\* The complete records at the front of b from offset o on, as byte slices.
RECURSIVE FrameList(_, _)
FrameList(b, o) ==
  IF o < Len(b) /\ o + 1 + NetLen(b[o + 1]) + 4 <= Len(b)
  THEN <<SubSeq(b, o + 1, o + 1 + NetLen(b[o + 1]) + 4)>>
         \o FrameList(b, o + 1 + NetLen(b[o + 1]) + 4)
  ELSE <<>>

\* The record a complete wire record stands for.
RecordOf(f) ==
  LET net == SubSeq(f, 2, Len(f) - 4)
      gw == SubSeq(f, Len(f) - 3, Len(f))
  IN Pair(IPv4String([k \in 1..4 |-> IF k <= Len(net) THEN net[k] ELSE 0])
            \o <<"/">> \o Itoa(f[1]),
          IPv4String(gw),
          <<"0", "x">> \o EncodeToString(f),
          NoError)

RecordsOf(fs) == [k \in 1..Len(fs) |-> RecordOf(fs[k])]

TruncatedStream == <<"unexpected end of data">>

TruncatedRecord == <<"not enough data for record">>

InvalidHex == <<"invalid hex string">>

\* C1: round trip.  Decoding what Encode returned for a valid route gives no
\* error and exactly one record: its route is the gateway, its target is the
\* network (the address written in the CIDR) with the bytes after the first
\* ceil(p/8) zeroed, over p, and its hex is the string Encode returned.
C1_RoundTrip ==
  (call.kind = "route" /\ dec.pc = "ret") =>
    /\ enc.err = NoError
    /\ dec.err = NoError
    /\ Len(dec.results) = 1
    /\ dec.results[1].Route = IPv4String(call.gw)
    /\ dec.results[1].Target =
         FormatCIDR([k \in 1..4 |-> IF k <= NetLen(call.p) THEN call.net[k] ELSE 0],
                    call.p)
    /\ dec.results[1].Hex = enc.hex
    /\ dec.results[1].Error = NoError

\* A /20 of 192.168.5.77 went through Encode and DecodeStream.
C1_Witness ==
  /\ call.kind = "route" /\ dec.pc = "ret"
  /\ call.p = 20 /\ call.net = <<192, 168, 5, 77>>
  /\ Len(dec.results) = 1
  /\ dec.results[1].Target = FormatCIDR(<<192, 168, 5, 0>>, 20)

\* C2: multi-record streams.  The concatenation of N valid single-record
\* blobs, 0x kept on the first only, decodes with no error to N records in
\* input order, the k-th being the record the k-th blob decodes to alone.
C2_MultiRecord ==
  (/\ call.kind = "stream" /\ call.cut = 0
   /\ call.form = "0x" \/ (call.form = "bare" /\ call.chunks = <<>>)
   /\ \A k \in 1..Len(call.chunks) : IsValidRecord(call.chunks[k])
   /\ dec.pc = "ret") =>
    /\ dec.err = NoError
    /\ Len(dec.results) = Len(call.chunks)
    /\ \A k \in 1..Len(call.chunks) :
         LET one == parseHexStream(Blob(<<call.chunks[k]>>, 0, "0x"))
         IN /\ one.err = NoError
            /\ Len(one.results) = 1
            /\ dec.results[k] = one.results[1]

\* As many different valid records as a generated stream holds were decoded.
C2_Witness ==
  /\ call.kind = "stream" /\ call.form = "0x" /\ call.cut = 0
  /\ Len(call.chunks) = MaxRecords
  /\ \A k \in 1..Len(call.chunks) : IsValidRecord(call.chunks[k])
  /\ call.chunks[1] # call.chunks[2]
  /\ dec.pc = "ret"
  /\ Len(dec.results) = MaxRecords

\* C3: truncation.  With the last byte of a valid non-empty blob removed the
\* call fails with TruncatedRecord, or TruncatedStream when only the length
\* byte of the last record is left, and returns the records that lie wholly
\* before the cut, in order.
C3_Truncation ==
  (/\ WellFormedCall /\ call.cut = 1 /\ call.chunks # <<>>
   /\ \A k \in 1..Len(call.chunks) : IsValidRecord(call.chunks[k])
   /\ dec.pc = "ret") =>
    LET n == Len(call.chunks)
        left == Len(call.chunks[n]) - 1
    IN /\ \/ dec.err = TruncatedRecord
          \/ (left = 1 /\ dec.err = TruncatedStream)
       /\ dec.results = RecordsOf(SubSeq(call.chunks, 1, n - 1))

\* A two-record blob lost its last byte; the first record came back with the
\* error.
C3_Witness ==
  /\ WellFormedCall /\ call.cut = 1 /\ Len(call.chunks) = 2
  /\ \A k \in 1..Len(call.chunks) : IsValidRecord(call.chunks[k])
  /\ dec.pc = "ret"
  /\ dec.err = TruncatedRecord
  /\ Len(dec.results) = 1

\* C4: partial success.  For a well-formed blob the call returns the records
\* of the longest prefix of complete records, in order, and an error exactly
\* when bytes are left after that prefix; text that is not hex gives
\* InvalidHex and no records.
C4_PartialSuccess ==
  (call.kind = "stream" /\ dec.pc = "ret") =>
    IF call.form \in WellFormedForms
    THEN LET fs == FrameList(InputBytes, 0)
         IN /\ dec.results = RecordsOf(fs)
            /\ (dec.err # NoError) <=> (Len(Flatten(fs)) < Len(InputBytes))
    ELSE dec.err = InvalidHex /\ dec.results = <<>>

\* A call returned an error together with the records before the failure.
C4_Witness ==
  /\ WellFormedCall /\ dec.pc = "ret"
  /\ dec.err # NoError
  /\ Len(dec.results) >= 1
  /\ Len(Flatten(FrameList(InputBytes, 0))) < Len(InputBytes)

\* Ceiling of p/8 as the specification tabulates it.
CeilTable(p) ==
  CASE p = 0 -> 0
    [] p \in 1..8 -> 1
    [] p \in 9..16 -> 2
    [] p \in 17..24 -> 3
    [] p \in 25..32 -> 4

\* C5: encoder wire format.  For prefix length p in 0..32 Encode returns 0x
\* and the lowercase hex of 1 + ceil(p/8) + 4 bytes: p, the first ceil(p/8)
\* bytes of the network address (the address written in the CIDR), the four
\* gateway bytes; ceil(p/8) is 0, 1, 2, 3, 4 for p = 0, 1..8, 9..16, 17..24,
\* 25..32.
C5_WireFormat ==
  (call.kind = "route" /\ enc.pc = "ret") =>
    LET n == CeilTable(call.p)
    IN /\ enc.err = NoError
       /\ enc.hex = <<"0", "x">>
            \o EncodeToString(<<call.p>> \o SubSeq(call.net, 1, n) \o call.gw)
       /\ Len(enc.hex) = 2 + 2 * (1 + n + 4)

\* Encode returned the five-byte default-route record.
C5_Witness ==
  /\ call.kind = "route" /\ enc.pc = "ret"
  /\ call.p = 0
  /\ Len(enc.hex) = 12

\* The hex fields of the records, without their 0x.
HexBodies(rs) == [k \in 1..Len(rs) |-> SubSeq(rs[k].Hex, 3, Len(rs[k].Hex))]

\* C6: byte-for-byte echo.  Each record's hex field is 0x and the lowercase
\* hex of the slice of the input the record was read from, so the fields in
\* order spell a prefix of the input, and the whole input when the call
\* returns no error.
C6_Echo ==
  (WellFormedCall /\ dec.pc \notin {"idle", "entry"}) =>
    LET hs == HexBodies(dec.results)
        input == EncodeToString(InputBytes)
    IN /\ \A k \in 1..Len(hs) :
            LET start == Len(Flatten(SubSeq(hs, 1, k - 1))) \div 2
                size == 1 + NetLen(InputBytes[start + 1]) + 4
            IN /\ HasPrefix(dec.results[k].Hex, <<"0", "x">>)
               /\ start < Len(InputBytes)
               /\ hs[k] = SubSeq(input, 2 * start + 1, 2 * (start + size))
       /\ (dec.pc = "ret" /\ dec.err = NoError) => Flatten(hs) = input

\* An upper-case blob of several records was decoded without error.
C6_Witness ==
  /\ call.kind = "stream" /\ call.form = "0X"
  /\ dec.pc = "ret" /\ dec.err = NoError
  /\ Len(dec.results) >= 2
  /\ \E k \in 1..Len(InputBytes) : InputBytes[k] >= 160

\* C7: data-model invariant on the output.  Every record returned has a
\* prefix length of 0..32 in its target and a hex field of 5 to 9 bytes.
C7_DataModel ==
  \A k \in 1..Len(dec.results) :
    LET r == dec.results[k]
        parts == Split(r.Target, "/")
    IN /\ Len(parts) = 2
       /\ DecValue(parts[2]) \in 0..32
       /\ (Len(r.Hex) - 2) \div 2 \in 5..9

\* The call from the start of an iteration to its end.
RECURSIVE RunIteration(_)
RunIteration(d) ==
  IF d.pc \in {"loop", "ret", "panic", "idle"} THEN d ELSE RunIteration(Step(d))

\* The cursor stays in the buffer, nothing panics, and an iteration that
\* completes moves the cursor forward by at least five.
C8_Bounded ==
  /\ dec.pc # "panic"
  /\ dec.i \in 0..Len(dec.data)
  /\ dec.pc = "len" =>
       LET e == RunIteration(dec)
       IN /\ e.pc \in {"loop", "ret"}
          /\ e.pc = "loop" => (e.i >= dec.i + 5 /\ e.i <= Len(dec.data))

\* C8: DecodeStream is total and bounded by its input.  For every buffer the
\* loop stays inside the buffer, the cursor advances by at least five each
\* completed iteration, and a call that started returns.
C8_Total == [](C8_Bounded) /\ ((dec.pc = "entry") ~> (dec.pc = "ret"))

\* A call returned after meeting a length byte that asks for more bytes than
\* the buffer holds.
C8_Witness ==
  /\ WellFormedCall /\ dec.pc = "ret"
  /\ dec.prefixLen = 200
  /\ dec.i + dec.bytesNeeded + 4 > Len(dec.data)
  /\ Len(dec.results) >= 1

\* Line 107 with each record copied before it is re-encoded.
FullHexCopied(d) ==
  [data |-> d.data,
   bytes |-> <<d.prefixLen % 256>> \o SliceBytes(d.data, d.netPart)
               \o SliceBytes(d.data, d.routePart)]

RECURSIVE RunCopied(_)
RunCopied(d) ==
  IF d.pc \in {"ret", "panic", "idle"} THEN d
  ELSE IF d.pc = "emit" THEN RunCopied(EmitWith(d, FullHexCopied(d)))
  ELSE RunCopied(Step(d))

\* C9: re-encoding a record leaves the buffer alone.  At every point of the
\* loop the buffer is the decoded input, and the call ends as it would had
\* each record been copied before re-encoding.
C9_BufferUnchanged ==
  (WellFormedCall /\ dec.pc \notin {"idle", "entry"}) =>
    /\ dec.data = InputBytes
    /\ dec.pc = "ret" =>
         LET ref == RunCopied(Frame(Blob(call.chunks, call.cut, call.form)))
         IN dec.results = ref.results /\ dec.err = ref.err

\* A record with network bytes was re-encoded and bytes are still to decode.
C9_Witness ==
  /\ WellFormedCall /\ dec.pc = "loop"
  /\ Len(dec.results) >= 1
  /\ dec.netPart.len >= 1
  /\ dec.i < Len(dec.data)

\* The rows the lines ls account for, checked against rows from the front.
RECURSIVE RowsMatch(_, _)
RowsMatch(rows, ls) ==
  IF ls = <<>> THEN rows = <<>>
  ELSE LET l == Head(ls) IN
    IF l.tokens = <<>> THEN RowsMatch(rows, Tail(ls))
    ELSE IF Len(l.tokens) = 1
    THEN LET r == parseHexStream(l.tokens[1])
             n == IF r.err # NoError THEN 1 ELSE Len(r.results)
         IN /\ Len(rows) >= n
            /\ IF r.err # NoError
               THEN rows[1] = Pair(<<>>, <<>>, l.tokens[1], r.err)
               ELSE SubSeq(rows, 1, n) = r.results
            /\ RowsMatch(SubSeq(rows, n + 1, Len(rows)), Tail(ls))
    ELSE /\ Len(rows) >= 1
         /\ rows[1].Error # NoError \/ rows[1].Hex # <<>>
         /\ RowsMatch(Tail(rows), Tail(ls))

\* C10: per-line results of a POST.  Rows follow the non-empty lines in input
\* order; a one-token line that fails to decode gives one row with the token
\* and the error and none of the records decoded before the failure, one
\* that decodes gives a row per record, and the lines after a failing line
\* are still processed.
C10_PerLine ==
  (call.kind = "request" /\ page.method = "POST" /\ page.pc = "done") =>
    RowsMatch(page.rendered, call.lines)

\* A line that failed after decoding a record was followed by a line that
\* decoded.
C10_Witness ==
  /\ call.kind = "request" /\ page.pc = "done"
  /\ Len(call.lines) >= 2
  /\ Len(call.lines[1].tokens) = 1
  /\ LET r == parseHexStream(call.lines[1].tokens[1])
     IN r.err # NoError /\ r.results # <<>>
  /\ Len(call.lines[2].tokens) = 1
  /\ parseHexStream(call.lines[2].tokens[1]).err = NoError
  /\ Len(page.rendered) >= 2
  /\ page.rendered[1].Error # NoError
  /\ page.rendered[2].Error = NoError

====
